---- MODULE Spec2Model ----
(***************************************************************************)
(* Balancer V2 FlashLoan harvesting scripts (research/*.py).               *)
(*                                                                         *)
(* Three scripts share one pipeline: query_flashloans pages through the    *)
(* HyperSync service, decode_flashloan_log turns one raw log plus the      *)
(* transaction map into a record, main decodes and exports.                *)
(*                                                                         *)
(* Python values are modelled as follows.  A str is a sequence of          *)
(* one-character strings.  A value that may be None, a str or an int is a  *)
(* tagged record (PyNone, PyStr, PyInt).  A float quotient x / 10^d is     *)
(* kept as the pair (mantissa x, exponent -d) and stands for the double    *)
(* nearest to that quotient.  A sum of floats is a whole number when all   *)
(* its addends are, and otherwise the list of its addends in the order     *)
(* they are added; a float divided by a count is the pair (num, den).      *)
(***************************************************************************)
EXTENDS Integers, Sequences, FiniteSets, TLC

VARIABLES
  variant,        \* which script runs: "extract_all", "query_all", "balancer"
  from_block,     \* parameter from_block of query_flashloans
  to_block,       \* parameter to_block of query_flashloans (PyNone or PyInt)
  query_from,     \* query.from_block, the cursor
  all_logs,       \* all_logs accumulator
  all_txs,        \* all_txs accumulator: function from hash to tx
  res,            \* the last response of client.get (or NoRes)
  pc,             \* position of the run
  error,          \* the exception that ended the run, or ""
  events,         \* main: the decoded events
  exported,       \* main: the rows written to the CSV file
  requests,       \* history: from_block of every request issued, in order
  pages,          \* history: every response received, in order
  inflight,       \* history: number of client.get calls not yet answered
  d_log,          \* decoder input: the log
  d_txs,          \* decoder input: the transaction map
  d_data,         \* decoder input: what log.data was built from
  d_gas,          \* decoder input: what the transaction map was built from
  d_out,          \* decoder output per script, or NoOut
  s_src,          \* summary input: what the logs were built from
  s_events,       \* main: the decoded events of extract_all and of balancer
  s_out           \* main: the per-token summary each script prints, or NoOut

vars == <<variant, from_block, to_block, query_from, all_logs, all_txs, res, pc, error,
          events, exported, requests, pages, inflight,
          d_log, d_txs, d_data, d_gas, d_out, s_src, s_events, s_out>>

harvest_vars == <<variant, from_block, to_block, query_from, all_logs, all_txs,
                  res, pc, error, events, exported, requests, pages, inflight>>

decode_vars == <<d_log, d_txs, d_data, d_gas, d_out>>

summary_vars == <<s_src, s_events, s_out>>

-----------------------------------------------------------------------------
(* Python values *)

PyNone == [t |-> "None"]

PyStr(s) == [t |-> "str", s |-> s]

PyInt(n) == [t |-> "int", n |-> n]

\* bool(v) for None, str and int
Truthy(v) ==
  CASE v.t = "None" -> FALSE
    [] v.t = "str" -> v.s # <<>>
    [] v.t = "int" -> v.n # 0

Min(a, b) == IF a <= b THEN a ELSE b

\* s[a:b] for 0 <= a <= b
Slice(s, a, b) == SubSeq(s, Min(a, Len(s)) + 1, Min(b, Len(s)))

\* s[a:]
SliceFrom(s, a) == Slice(s, a, Len(s))

HexChars == <<"0","1","2","3","4","5","6","7","8","9","a","b","c","d","e","f">>

UpperHexChars == <<"0","1","2","3","4","5","6","7","8","9","A","B","C","D","E","F">>

IsHexDigit(c) == \E i \in 1..16 : HexChars[i] = c \/ UpperHexChars[i] = c

HexVal(c) == (CHOOSE i \in 1..16 : HexChars[i] = c \/ UpperHexChars[i] = c) - 1

RECURSIVE HexValueUpTo(_, _)
\* the value of the first k hex digits of s, most significant first
HexValueUpTo(s, k) ==
  IF k = 0 THEN 0 ELSE HexValueUpTo(s, k - 1) * 16 + HexVal(s[k])

HexValue(s) == HexValueUpTo(s, Len(s))

\* int(s, 16): an optional 0x prefix, then at least one hex digit; anything
\* else raises ValueError.  (Signs, whitespace and underscores, which int()
\* also accepts, are not in the alphabet of the inputs.)
PyIntDigits(body) ==
  IF body # <<>> /\ \A i \in 1..Len(body) : IsHexDigit(body[i])
  THEN [raised |-> "", v |-> HexValue(body)]
  ELSE [raised |-> "ValueError", v |-> 0]

PyIntBase16(s) ==
  PyIntDigits(IF Len(s) >= 2 /\ s[1] = "0" /\ s[2] \in {"x", "X"}
              THEN SliceFrom(s, 2) ELSE s)

\* int(x, 16) if isinstance(x, str) else x
IntOfStrOrNumber(x) ==
  IF x.t = "str" THEN PyIntBase16(x.s) ELSE [raised |-> "", v |-> x.n]

\* int(x) with the base left out: a string that is not all decimal digits,
\* such as a 0x quantity, raises ValueError
IntOfStrOnly_Base10(x) ==
  IF x.t = "str"
  THEN IF x.s # <<>> /\ \A i \in 1..Len(x.s) : \E k \in 1..10 : HexChars[k] = x.s[i]
       THEN [raised |-> "", v |-> HexValue(x.s)]
       ELSE [raised |-> "ValueError", v |-> 0]
  ELSE [raised |-> "", v |-> x.n]

\* int(x, 16) with no isinstance test: a number raises TypeError
IntOfStrOnly(x) ==
  IF x.t = "str" THEN PyIntBase16(x.s) ELSE [raised |-> "TypeError", v |-> 0]

\* x / 10^d as an exact quotient; a zero mantissa is the number 0
Scaled(x, d) == IF x = 0 THEN [m |-> 0, e |-> 0] ELSE [m |-> x, e |-> 0 - d]

\* dict.get(key) on a table of [key, ...] rows: the row, or <<>> for None
TableGet(table, k) ==
  LET hit == {i \in 1..Len(table) : k.t = "str" /\ table[i].key = k.s}
  IN IF hit = {} THEN <<>> ELSE <<table[CHOOSE i \in hit : TRUE]>>

\* txs.get(h): the record, or <<>> for None
DictGet(txs, h) == IF h \in DOMAIN txs THEN <<txs[h]>> ELSE <<>>

Ok(rec) == [raised |-> "", value |-> rec]

Raise(e) == [raised |-> e]

Chr_dots == <<".", ".", ".">>

Str_Unknown == <<"U","n","k","n","o","w","n">>

-----------------------------------------------------------------------------
(* Module constants of the three scripts *)

FLASHLOAN_TOPIC ==
  <<"0","x","0","d","7","d","7","5","e","0","1","a","b","9","5","7","8","0","d","3","c","d","1","c","8","e","c","0","d","d","6","c","2","c","e","1","9","e","3","a","2","0","4","2","7","e","e","c","8","b","f","5","3","2","8","3","b","6","f","b","8","e","9","5","f","0">>

\* ["USDC", "USDT", "DAI", "FRAX", "LUSD"]
StableNames ==
  {<<"U","S","D","C">>,
   <<"U","S","D","T">>,
   <<"D","A","I">>,
   <<"F","R","A","X">>,
   <<"L","U","S","D">>}

KNOWN_TOKENS ==
  <<
    [key |-> <<"0","x","0","0","0","0","0","0","0","0","0","0","0","0","0","0","0","0","0","0","0","0","0","0","0","0","a","0","b","8","6","9","9","1","c","6","2","1","8","b","3","6","c","1","d","1","9","d","4","a","2","e","9","e","b","0","c","e","3","6","0","6","e","b","4","8">>,
     name |-> <<"U","S","D","C">>, decimals |-> 6],
    [key |-> <<"0","x","0","0","0","0","0","0","0","0","0","0","0","0","0","0","0","0","0","0","0","0","0","0","0","0","d","a","c","1","7","f","9","5","8","d","2","e","e","5","2","3","a","2","2","0","6","2","0","6","9","9","4","5","9","7","c","1","3","d","8","3","1","e","c","7">>,
     name |-> <<"U","S","D","T">>, decimals |-> 6],
    [key |-> <<"0","x","0","0","0","0","0","0","0","0","0","0","0","0","0","0","0","0","0","0","0","0","0","0","0","0","6","b","1","7","5","4","7","4","e","8","9","0","9","4","c","4","4","d","a","9","8","b","9","5","4","e","e","d","e","a","c","4","9","5","2","7","1","d","0","f">>,
     name |-> <<"D","A","I">>, decimals |-> 18],
    [key |-> <<"0","x","0","0","0","0","0","0","0","0","0","0","0","0","0","0","0","0","0","0","0","0","0","0","0","0","8","5","3","d","9","5","5","a","c","e","f","8","2","2","d","b","0","5","8","e","b","8","5","0","5","9","1","1","e","d","7","7","f","1","7","5","b","9","9","e">>,
     name |-> <<"F","R","A","X">>, decimals |-> 18],
    [key |-> <<"0","x","0","0","0","0","0","0","0","0","0","0","0","0","0","0","0","0","0","0","0","0","0","0","0","0","5","f","9","8","8","0","5","a","4","e","8","b","e","2","5","5","a","3","2","8","8","0","f","d","e","c","7","f","6","7","2","8","c","6","5","6","8","b","a","0">>,
     name |-> <<"L","U","S","D">>, decimals |-> 18],
    [key |-> <<"0","x","0","0","0","0","0","0","0","0","0","0","0","0","0","0","0","0","0","0","0","0","0","0","0","0","c","0","2","a","a","a","3","9","b","2","2","3","f","e","8","d","0","a","0","e","5","c","4","f","2","7","e","a","d","9","0","8","3","c","7","5","6","c","c","2">>,
     name |-> <<"W","E","T","H">>, decimals |-> 18],
    [key |-> <<"0","x","0","0","0","0","0","0","0","0","0","0","0","0","0","0","0","0","0","0","0","0","0","0","0","0","2","2","6","0","f","a","c","5","e","5","5","4","2","a","7","7","3","a","a","4","4","f","b","c","f","e","d","f","7","c","1","9","3","b","c","2","c","5","9","9">>,
     name |-> <<"W","B","T","C">>, decimals |-> 8],
    [key |-> <<"0","x","0","0","0","0","0","0","0","0","0","0","0","0","0","0","0","0","0","0","0","0","0","0","0","0","c","d","5","f","e","2","3","c","8","5","8","2","0","f","7","b","7","2","d","0","9","2","6","f","c","9","b","0","5","b","4","3","e","3","5","9","b","7","e","e">>,
     name |-> <<"w","e","E","T","H">>, decimals |-> 18],
    [key |-> <<"0","x","0","0","0","0","0","0","0","0","0","0","0","0","0","0","0","0","0","0","0","0","0","0","0","0","7","f","3","9","c","5","8","1","f","5","9","5","b","5","3","c","5","c","b","1","9","b","d","0","b","3","f","8","d","a","6","c","9","3","5","e","2","c","a","0">>,
     name |-> <<"w","s","t","E","T","H">>, decimals |-> 18],
    [key |-> <<"0","x","0","0","0","0","0","0","0","0","0","0","0","0","0","0","0","0","0","0","0","0","0","0","0","0","a","e","7","8","7","3","6","c","d","6","1","5","f","3","7","4","d","3","0","8","5","1","2","3","a","2","1","0","4","4","8","e","7","4","f","c","6","3","9","3">>,
     name |-> <<"r","E","T","H">>, decimals |-> 18],
    [key |-> <<"0","x","0","0","0","0","0","0","0","0","0","0","0","0","0","0","0","0","0","0","0","0","0","0","0","0","b","e","9","8","9","5","1","4","6","f","7","a","f","4","3","0","4","9","c","a","1","c","1","a","e","3","5","8","b","0","5","4","1","e","a","4","9","7","0","4">>,
     name |-> <<"c","b","E","T","H">>, decimals |-> 18],
    [key |-> <<"0","x","0","0","0","0","0","0","0","0","0","0","0","0","0","0","0","0","0","0","0","0","0","0","0","0","a","3","5","b","1","b","3","1","c","e","0","0","2","f","b","f","2","0","5","8","d","2","2","f","3","0","f","9","5","d","4","0","5","2","0","0","a","1","5","b">>,
     name |-> <<"E","T","H","x">>, decimals |-> 18],
    [key |-> <<"0","x","0","0","0","0","0","0","0","0","0","0","0","0","0","0","0","0","0","0","0","0","0","0","0","0","a","c","3","e","0","1","8","4","5","7","b","2","2","2","d","9","3","1","1","4","4","5","8","4","7","6","f","3","e","3","4","1","6","a","b","b","e","3","8","f">>,
     name |-> <<"s","f","r","x","E","T","H">>, decimals |-> 18]
>>

STABLECOINS_query_all ==
  <<
    [key |-> <<"0","x","0","0","0","0","0","0","0","0","0","0","0","0","0","0","0","0","0","0","0","0","0","0","0","0","a","0","b","8","6","9","9","1","c","6","2","1","8","b","3","6","c","1","d","1","9","d","4","a","2","e","9","e","b","0","c","e","3","6","0","6","e","b","4","8">>,
     name |-> <<"U","S","D","C">>],
    [key |-> <<"0","x","0","0","0","0","0","0","0","0","0","0","0","0","0","0","0","0","0","0","0","0","0","0","0","0","d","a","c","1","7","f","9","5","8","d","2","e","e","5","2","3","a","2","2","0","6","2","0","6","9","9","4","5","9","7","c","1","3","d","8","3","1","e","c","7">>,
     name |-> <<"U","S","D","T">>],
    [key |-> <<"0","x","0","0","0","0","0","0","0","0","0","0","0","0","0","0","0","0","0","0","0","0","0","0","0","0","6","b","1","7","5","4","7","4","e","8","9","0","9","4","c","4","4","d","a","9","8","b","9","5","4","e","e","d","e","a","c","4","9","5","2","7","1","d","0","f">>,
     name |-> <<"D","A","I">>],
    [key |-> <<"0","x","0","0","0","0","0","0","0","0","0","0","0","0","0","0","0","0","0","0","0","0","0","0","0","0","8","5","3","d","9","5","5","a","c","e","f","8","2","2","d","b","0","5","8","e","b","8","5","0","5","9","1","1","e","d","7","7","f","1","7","5","b","9","9","e">>,
     name |-> <<"F","R","A","X">>],
    [key |-> <<"0","x","0","0","0","0","0","0","0","0","0","0","0","0","0","0","0","0","0","0","0","0","0","0","0","0","5","f","9","8","8","0","5","a","4","e","8","b","e","2","5","5","a","3","2","8","8","0","f","d","e","c","7","f","6","7","2","8","c","6","5","6","8","b","a","0">>,
     name |-> <<"L","U","S","D">>],
    [key |-> <<"0","x","0","0","0","0","0","0","0","0","0","0","0","0","0","0","0","0","0","0","0","0","0","0","0","0","c","0","2","a","a","a","3","9","b","2","2","3","f","e","8","d","0","a","0","e","5","c","4","f","2","7","e","a","d","9","0","8","3","c","7","5","6","c","c","2">>,
     name |-> <<"W","E","T","H">>],
    [key |-> <<"0","x","0","0","0","0","0","0","0","0","0","0","0","0","0","0","0","0","0","0","0","0","0","0","0","0","2","2","6","0","f","a","c","5","e","5","5","4","2","a","7","7","3","a","a","4","4","f","b","c","f","e","d","f","7","c","1","9","3","b","c","2","c","5","9","9">>,
     name |-> <<"W","B","T","C">>]
>>

STABLECOINS_balancer ==
  <<
    [key |-> <<"0","x","a","0","b","8","6","9","9","1","c","6","2","1","8","b","3","6","c","1","d","1","9","d","4","a","2","e","9","e","b","0","c","e","3","6","0","6","e","b","4","8">>,
     name |-> <<"U","S","D","C">>],
    [key |-> <<"0","x","d","a","c","1","7","f","9","5","8","d","2","e","e","5","2","3","a","2","2","0","6","2","0","6","9","9","4","5","9","7","c","1","3","d","8","3","1","e","c","7">>,
     name |-> <<"U","S","D","T">>],
    [key |-> <<"0","x","6","b","1","7","5","4","7","4","e","8","9","0","9","4","c","4","4","d","a","9","8","b","9","5","4","e","e","d","e","a","c","4","9","5","2","7","1","d","0","f">>,
     name |-> <<"D","A","I">>],
    [key |-> <<"0","x","4","f","a","b","b","1","4","5","d","6","4","6","5","2","a","9","4","8","d","7","2","5","3","3","0","2","3","f","6","e","7","a","6","2","3","c","7","c","5","3">>,
     name |-> <<"B","U","S","D">>],
    [key |-> <<"0","x","8","e","8","7","0","d","6","7","f","6","6","0","d","9","5","d","5","b","e","5","3","0","3","8","0","d","0","e","c","0","b","d","3","8","8","2","8","9","e","1">>,
     name |-> <<"U","S","D","P">>],
    [key |-> <<"0","x","0","0","0","0","0","0","0","0","0","0","0","8","5","d","4","7","8","0","b","7","3","1","1","9","b","6","4","4","a","e","5","e","c","d","2","2","b","3","7","6">>,
     name |-> <<"T","U","S","D">>],
    [key |-> <<"0","x","8","5","3","d","9","5","5","a","c","e","f","8","2","2","d","b","0","5","8","e","b","8","5","0","5","9","1","1","e","d","7","7","f","1","7","5","b","9","9","e">>,
     name |-> <<"F","R","A","X">>],
    [key |-> <<"0","x","5","f","9","8","8","0","5","a","4","e","8","b","e","2","5","5","a","3","2","8","8","0","f","d","e","c","7","f","6","7","2","8","c","6","5","6","8","b","a","0">>,
     name |-> <<"L","U","S","D">>],
    [key |-> <<"0","x","5","7","a","b","1","e","c","2","8","d","1","2","9","7","0","7","0","5","2","d","f","4","d","f","4","1","8","d","5","8","a","2","d","4","6","d","5","f","5","1">>,
     name |-> <<"s","U","S","D">>],
    [key |-> <<"0","x","1","a","b","a","e","a","1","f","7","c","8","3","0","b","d","8","9","a","c","c","6","7","e","c","4","a","f","5","1","6","2","8","4","b","1","b","c","3","3","c">>,
     name |-> <<"E","U","R","C">>]
>>

\* STABLECOIN_TOPICS = {"0x000000000000000000000000" + addr[2:]: name ...}
TopicPad == <<"0","x","0","0","0","0","0","0","0","0","0","0","0","0",
              "0","0","0","0","0","0","0","0","0","0","0","0">>

STABLECOIN_TOPICS ==
  [i \in 1..Len(STABLECOINS_balancer) |->
     [key |-> TopicPad \o SliceFrom(STABLECOINS_balancer[i].key, 2),
      name |-> STABLECOINS_balancer[i].name]]

-----------------------------------------------------------------------------
(* decode_flashloan_log *)

\* a decoder whose length tests forget the two characters of the 0x prefix
DecodeData_ForgetsPrefix(data) ==
  IF Truthy(data) /\ Len(data.s) >= 64
  THEN LET a == PyIntBase16(Slice(data.s, 2, 66))
           f == IF Len(data.s) >= 128
                THEN PyIntBase16(Slice(data.s, 66, 130))
                ELSE [raised |-> "", v |-> 0]
       IN IF a.raised # "" THEN [raised |-> a.raised, amount |-> 0, fee |-> 0]
          ELSE IF f.raised # "" THEN [raised |-> f.raised, amount |-> 0, fee |-> 0]
          ELSE [raised |-> "", amount |-> a.v, fee |-> f.v]
  ELSE [raised |-> "", amount |-> 0, fee |-> 0]

\* amount and fee out of log.data, shared by the three scripts
DecodeData(data) ==
  IF Truthy(data) /\ Len(data.s) >= 66
  THEN LET a == PyIntBase16(Slice(data.s, 2, 66))
           f == IF Len(data.s) >= 130
                THEN PyIntBase16(Slice(data.s, 66, 130))
                ELSE [raised |-> "", v |-> 0]
       IN IF a.raised # "" THEN [raised |-> a.raised, amount |-> 0, fee |-> 0]
          ELSE IF f.raised # "" THEN [raised |-> f.raised, amount |-> 0, fee |-> 0]
          ELSE [raised |-> "", amount |-> a.v, fee |-> f.v]
  ELSE [raised |-> "", amount |-> 0, fee |-> 0]

\* gas_used and gas_price with the isinstance test (extract_all, query_all)
DecodeGasChecked(tx) ==
  IF tx = <<>> THEN [raised |-> "", gas_used |-> 0, gas_price |-> 0]
  ELSE LET u == IF Truthy(tx[1].gas_used) THEN IntOfStrOrNumber(tx[1].gas_used)
                ELSE [raised |-> "", v |-> 0]
           p == IF Truthy(tx[1].gas_price) THEN IntOfStrOrNumber(tx[1].gas_price)
                ELSE [raised |-> "", v |-> 0]
       IN IF u.raised # "" THEN [raised |-> u.raised, gas_used |-> 0, gas_price |-> 0]
          ELSE IF p.raised # "" THEN [raised |-> p.raised, gas_used |-> 0, gas_price |-> 0]
          ELSE [raised |-> "", gas_used |-> u.v, gas_price |-> p.v]

\* gas_used and gas_price without the isinstance test (balancer)
DecodeGasUnchecked(tx) ==
  LET u == IF tx # <<>> /\ Truthy(tx[1].gas_used) THEN IntOfStrOnly(tx[1].gas_used)
           ELSE [raised |-> "", v |-> 0]
      p == IF tx # <<>> /\ Truthy(tx[1].gas_price) THEN IntOfStrOnly(tx[1].gas_price)
           ELSE [raised |-> "", v |-> 0]
  IN IF u.raised # "" THEN [raised |-> u.raised, gas_used |-> 0, gas_price |-> 0]
     ELSE IF p.raised # "" THEN [raised |-> p.raised, gas_used |-> 0, gas_price |-> 0]
     ELSE [raised |-> "", gas_used |-> u.v, gas_price |-> p.v]

\* log.topics[i] if len(log.topics) > i else None
TopicAt(topics, i) == IF Len(topics) > i THEN topics[i + 1] ELSE PyNone

\* research/extract_all_flashloans.py, from the KNOWN_TOKENS lookup on
DecodeExtractAll(recipient_topic, token_topic, log, txs) ==
  LET token_info == TableGet(KNOWN_TOKENS, token_topic)
      token_name == IF token_info # <<>> THEN token_info[1].name
                    ELSE IF Truthy(token_topic)
                         THEN Slice(token_topic.s, 26, 42) \o Chr_dots
                         ELSE Str_Unknown
      decimals == IF token_info # <<>> THEN token_info[1].decimals ELSE 18
      d == DecodeData(log.data)
      g == DecodeGasChecked(DictGet(txs, log.transaction_hash))
  IN IF d.raised # "" THEN Raise(d.raised)
     ELSE IF g.raised # "" THEN Raise(g.raised)
     ELSE Ok([tx_hash |-> log.transaction_hash,
              block |-> log.block_number,
              token |-> PyStr(token_name),
              token_address |-> IF Truthy(token_topic)
                                THEN PyStr(SliceFrom(token_topic.s, 26))
                                ELSE PyStr(<<>>),
              amount_raw |-> d.amount,
              amount |-> Scaled(d.amount, decimals),
              decimals |-> decimals,
              fee_raw |-> d.fee,
              gas_used |-> g.gas_used,
              gas_price_gwei |-> IF g.gas_price # 0 THEN Scaled(g.gas_price, 9)
                                 ELSE Scaled(0, 0),
              recipient |-> IF Truthy(recipient_topic)
                            THEN PyStr(SliceFrom(recipient_topic.s, 26))
                            ELSE PyStr(<<>>)])

\* a decoder that reads topics[1] and topics[2] without the length tests
decode_flashloan_log_extract_all_Unguarded(log, txs) ==
  IF Len(log.topics) <= 2 THEN Raise("IndexError")
  ELSE DecodeExtractAll(log.topics[2], log.topics[3], log, txs)

\* research/extract_all_flashloans.py
decode_flashloan_log_extract_all(log, txs) ==
  DecodeExtractAll(TopicAt(log.topics, 1), TopicAt(log.topics, 2), log, txs)

\* research/query_all_flashloans.py
decode_flashloan_log_query_all(log, txs) ==
  LET token_topic == TopicAt(log.topics, 2)
      known == TableGet(STABLECOINS_query_all, token_topic)
      token_name == IF known # <<>> THEN known[1].name
                    ELSE IF Truthy(token_topic)
                         THEN Slice(token_topic.s, 0, 20) \o Chr_dots
                         ELSE Str_Unknown
      d == DecodeData(log.data)
      g == DecodeGasChecked(DictGet(txs, log.transaction_hash))
  IN IF d.raised # "" THEN Raise(d.raised)
     ELSE IF g.raised # "" THEN Raise(g.raised)
     ELSE Ok([tx_hash |-> log.transaction_hash,
              block |-> log.block_number,
              token |-> PyStr(token_name),
              token_topic |-> token_topic,
              amount |-> d.amount,
              fee |-> d.fee,
              gas_used |-> g.gas_used,
              gas_price_gwei |-> IF g.gas_price # 0 THEN Scaled(g.gas_price, 9)
                                 ELSE Scaled(0, 0)])

\* research/query_balancer_flashloans.py
decode_flashloan_log_balancer(log, txs) ==
  LET recipient_topic == TopicAt(log.topics, 1)
      token_topic == TopicAt(log.topics, 2)
      known == TableGet(STABLECOIN_TOPICS, token_topic)
      token_name == IF known # <<>> THEN known[1].name ELSE Str_Unknown
      d == DecodeData(log.data)
      g == DecodeGasUnchecked(DictGet(txs, log.transaction_hash))
  IN IF d.raised # "" THEN Raise(d.raised)
     ELSE IF g.raised # "" THEN Raise(g.raised)
     ELSE Ok([tx_hash |-> log.transaction_hash,
              block |-> log.block_number,
              token |-> PyStr(token_name),
              token_address |-> token_topic,
              amount |-> d.amount,
              fee |-> d.fee,
              gas_used |-> g.gas_used,
              gas_price_gwei |-> Scaled(g.gas_price, 9),
              recipient |-> recipient_topic])

Variants == {"extract_all", "query_all", "balancer"}

decode_flashloan_log(v, log, txs) ==
  CASE v = "extract_all" -> decode_flashloan_log_extract_all(log, txs)
    [] v = "query_all" -> decode_flashloan_log_query_all(log, txs)
    [] v = "balancer" -> decode_flashloan_log_balancer(log, txs)

-----------------------------------------------------------------------------
(* Bounds and inputs *)

MaxBlock == 2

MaxFrom == 1

MaxRequests == 2

MaxWords == 2

Zeros(k) == [i \in 1..k |-> "0"]

RECURSIVE HexDigits(_)
HexDigits(n) ==
  IF n < 16 THEN <<HexChars[n + 1]>>
  ELSE HexDigits(n \div 16) \o <<HexChars[(n % 16) + 1]>>

\* a quantity as the service encodes it: 0x then the hex digits
Quantity(n) == <<"0", "x">> \o HexDigits(n)

\* one 32-byte big-endian word as 64 hex characters
Word(n) == Zeros(64 - Len(HexDigits(n))) \o HexDigits(n)

\* a padded address topic
Topic(addr) == PyStr(TopicPad \o addr)

RecipientAddr ==
  <<"1","1","1","1","1","1","1","1","1","1","2","2","2","2","2","2","2","2","2","2",
    "3","3","3","3","3","3","3","3","3","3","4","4","4","4","4","4","4","4","4","4">>

UnlistedAddr ==
  <<"a","a","a","a","a","a","a","a","a","a","b","b","b","b","b","b","b","b","b","b",
    "c","c","c","c","c","c","c","c","c","c","d","d","d","d","d","d","d","d","d","d">>

Topic_USDC == PyStr(KNOWN_TOKENS[1].key)

Topic_WBTC == PyStr(KNOWN_TOKENS[7].key)

Topic_Recipient == Topic(RecipientAddr)

Topic_Unlisted == Topic(UnlistedAddr)

Hash_a == PyStr(<<"0", "x", "a">>)

Hash_b == PyStr(<<"0", "x", "b">>)

Tx(h, used, price) == [hash |-> h, gas_used |-> used, gas_price |-> price]

Log(h, blk, topics, data) ==
  [transaction_hash |-> h, block_number |-> blk, topics |-> topics, data |-> data]

\* the pages the service double can answer with: res.data.logs and
\* res.data.transactions
Payloads ==
  { [logs |-> <<>>, transactions |-> <<>>],
    [logs |-> << Log(Hash_a, 1, <<PyStr(FLASHLOAN_TOPIC), Topic_Recipient, Topic_USDC>>,
                     PyStr(<<"0", "x">> \o Word(1000000) \o Word(5))),
                 Log(Hash_b, 1, <<PyStr(FLASHLOAN_TOPIC), Topic_Recipient, Topic_Unlisted>>,
                     PyStr(<<"0", "x">>)) >>,
     transactions |-> << Tx(Hash_a, PyStr(Quantity(21000)), PyStr(Quantity(2000000000))),
                         Tx(Hash_a, PyStr(Quantity(21001)), PyStr(Quantity(1))),
                         Tx(PyNone, PyStr(Quantity(7)), PyNone) >>],
    [logs |-> << Log(Hash_a, 2, <<PyStr(FLASHLOAN_TOPIC)>>, PyNone) >>,
     transactions |-> << Tx(Hash_b, PyStr(Quantity(30000)), PyStr(Quantity(3))),
                         Tx(Hash_a, PyStr(Quantity(3)), PyStr(Quantity(0))) >>] }

Blocks == 0..MaxBlock

Heights == (MaxBlock - 1)..MaxBlock

NoRes == [next_block |-> 0, archive_height |-> 0, logs |-> <<>>, transactions |-> <<>>,
          none |-> TRUE]

Response(nb, ah, p) ==
  [next_block |-> nb, archive_height |-> ah, logs |-> p.logs,
   transactions |-> p.transactions]

-----------------------------------------------------------------------------
(* query_flashloans *)

\* a or b
PyOr(a, b) == IF Truthy(a) THEN a ELSE b

\* target = to_block or res.archive_height
Target(to, ah) == PyOr(to, PyInt(ah)).n

\* a loop that stops only above the target
IsDone_Strict(nb, to, ah) == nb > Target(to, ah)

\* if res.next_block >= (to_block or res.archive_height): break
IsDone(nb, to, ah) == nb >= Target(to, ah)

\* a loop that keeps only the latest batch
ExtendLogs_Overwrite(logs, batch) == IF batch # <<>> THEN batch ELSE logs

\* all_logs.extend(res.data.logs), under `if res.data.logs`
ExtendLogs(logs, batch) == IF batch # <<>> THEN logs \o batch ELSE logs

\* all_txs.setdefault(tx.hash, tx): an existing record is kept
DictSet_KeepFirst(txs, tx) ==
  [h \in (DOMAIN txs) \cup {tx.hash} |-> IF h \in DOMAIN txs THEN txs[h] ELSE tx]

\* all_txs[tx.hash] = tx
DictSet(txs, tx) ==
  [h \in (DOMAIN txs) \cup {tx.hash} |-> IF h = tx.hash THEN tx ELSE txs[h]]

\* the body of `for tx in res.data.transactions`; extract_all and query_all
\* skip a record whose hash is falsy, balancer stores every record
StoreTx(v, txs, tx) ==
  IF v = "balancer" \/ Truthy(tx.hash) THEN DictSet(txs, tx) ELSE txs

RECURSIVE StoreAll(_, _, _)
StoreAll(v, txs, batch) ==
  IF batch = <<>> THEN txs
  ELSE StoreAll(v, StoreTx(v, txs, Head(batch)), Tail(batch))

EmptyDict == <<>>

HarvestInit ==
  /\ variant \in Variants
  /\ from_block \in 0..MaxFrom
  /\ to_block \in {PyNone} \cup {PyInt(n) : n \in Blocks}
  /\ query_from = from_block
  /\ all_logs = <<>>
  /\ all_txs = EmptyDict
  /\ res = NoRes
  /\ pc = "get"
  /\ error = ""
  /\ events = <<>>
  /\ exported = <<>>
  /\ requests = <<>>
  /\ pages = <<>>
  /\ inflight = 0

\* res = await client.get(query): the request leaves
Get ==
  /\ pc = "get"
  /\ Len(requests) < MaxRequests
  /\ requests' = Append(requests, query_from)
  /\ inflight' = inflight + 1
  /\ pc' = "await"
  /\ UNCHANGED <<variant, from_block, to_block, query_from, all_logs, all_txs, res,
                 error, events, exported, pages>>

\* the response arrives; the rest of the loop body runs.  The progress line
\* extract_all prints (pct, with its division guarded by target > from_block)
\* changes no state.
Respond ==
  /\ pc = "await"
  /\ \E nb \in Blocks, ah \in Heights, p \in Payloads :
       /\ res' = Response(nb, ah, p)
       /\ pages' = Append(pages, Response(nb, ah, p))
       /\ all_logs' = ExtendLogs(all_logs, p.logs)
       /\ all_txs' = StoreAll(variant, all_txs, p.transactions)
       /\ IF IsDone(nb, to_block, ah)
          THEN pc' = "returned" /\ query_from' = query_from
          ELSE pc' = "get" /\ query_from' = nb
  /\ inflight' = inflight - 1
  /\ UNCHANGED <<variant, from_block, to_block, error, events, exported, requests>>

\* a loop that catches the failure and returns what it has
GetFails_ReturnsPartial ==
  /\ pc = "await"
  /\ pc' = "returned"
  /\ error' = "ServiceUnavailable"
  /\ inflight' = inflight - 1
  /\ UNCHANGED <<variant, from_block, to_block, query_from, all_logs, all_txs, res,
                 events, exported, requests, pages>>

\* client.get raises: nothing catches it in query_flashloans or in main
GetFails ==
  /\ pc = "await"
  /\ pc' = "raised"
  /\ error' = "ServiceUnavailable"
  /\ inflight' = inflight - 1
  /\ UNCHANGED <<variant, from_block, to_block, query_from, all_logs, all_txs, res,
                 events, exported, requests, pages>>

-----------------------------------------------------------------------------
(* main *)

RECURSIVE StablecoinEvents(_, _)
\* the events of a list whose token is one of the stablecoin names
StablecoinEvents(s, names) ==
  IF s = <<>> THEN <<>>
  ELSE IF Head(s).token.s \in names
       THEN <<Head(s)>> \o StablecoinEvents(Tail(s), names)
       ELSE StablecoinEvents(Tail(s), names)

\* the row main writes for one event
CsvRow(v, e) ==
  IF v = "query_all"
  THEN [tx_hash |-> e.tx_hash, block |-> e.block, token |-> e.token,
        amount |-> e.amount, fee |-> e.fee, gas_used |-> e.gas_used,
        gas_price_gwei |-> e.gas_price_gwei]
  ELSE e

\* logs, txs = await query_flashloans(...); if not logs: return; the decode loop
MainDecode ==
  /\ pc = "returned"
  /\ IF all_logs = <<>>
     THEN pc' = "done" /\ UNCHANGED <<events, error>>
     ELSE \E outs \in {[i \in 1..Len(all_logs) |->
                           decode_flashloan_log(variant, all_logs[i], all_txs)]} :
            LET bad == {i \in 1..Len(outs) : outs[i].raised # ""}
                decoded == [i \in 1..Len(outs) |-> outs[i].value]
            IN IF bad # {}
               THEN /\ pc' = "raised"
                    /\ error' = outs[CHOOSE i \in bad : \A j \in bad : i <= j].raised
                    /\ events' = events
               ELSE /\ pc' = "decoded"
                    /\ error' = error
                    /\ events' = IF variant = "query_all"
                                 THEN StablecoinEvents(decoded, StableNames)
                                 ELSE decoded
  /\ UNCHANGED <<variant, from_block, to_block, query_from, all_logs, all_txs, res,
                 exported, requests, pages, inflight>>

\* the CSV file of extract_all and query_all; balancer writes no file
MainOutput ==
  /\ pc = "decoded"
  /\ pc' = "done"
  /\ exported' = IF variant = "balancer" THEN exported
                 ELSE [i \in 1..Len(events) |-> CsvRow(variant, events[i])]
  /\ UNCHANGED <<variant, from_block, to_block, query_from, all_logs, all_txs, res,
                 error, events, requests, pages, inflight>>

-----------------------------------------------------------------------------
(* The decoder on its own inputs *)

NoOut == <<>>

AmountInputs == {0, 1, 1000000}

FeeInputs == {0, 5}

Cuts == {c \in 0..(64 * MaxWords) : \E w \in 0..MaxWords : c \in {64 * w - 1, 64 * w, 64 * w + 1}}

\* log.data: absent, empty, or 0x and the first cut hex characters of the
\* words amount, fee, 0, 0, ...
DataSources ==
  {[kind |-> k, amount |-> 0, fee |-> 0, cut |-> 0] : k \in {"absent", "empty"}}
  \cup
  {[kind |-> "hex", amount |-> a, fee |-> f, cut |-> c] :
     a \in AmountInputs, f \in FeeInputs, c \in Cuts}

DataOf(src) ==
  CASE src.kind = "absent" -> PyNone
    [] src.kind = "empty" -> PyStr(<<>>)
    [] src.kind = "hex" ->
         PyStr(<<"0", "x">> \o
               Slice(Word(src.amount) \o Word(src.fee) \o Zeros(64 * (MaxWords - 1)),
                     0, src.cut))

FullTopics == <<PyStr(FLASHLOAN_TOPIC), Topic_Recipient, Topic_USDC>>

TopicsInputs ==
  { <<>>,
    <<PyStr(FLASHLOAN_TOPIC)>>,
    <<PyStr(FLASHLOAN_TOPIC), Topic_Recipient>>,
    <<PyStr(FLASHLOAN_TOPIC), PyNone, PyNone>>,
    FullTopics,
    <<PyStr(FLASHLOAN_TOPIC), Topic_Recipient, Topic_WBTC>>,
    <<PyStr(FLASHLOAN_TOPIC), Topic_Recipient, Topic_Unlisted>> }

GasUsedInputs == {0, 21000}

GasPriceInputs == {0, 2000000000}

\* one quantity in the representations a transaction record can carry
Repr(kind, n) ==
  CASE kind = "hex" -> PyStr(Quantity(n))
    [] kind = "number" -> PyInt(n)
    [] kind = "absent" -> PyNone
    [] kind = "emptyhex" -> PyStr(<<"0", "x">>)

\* the transaction map and what it was built from
GasInputs ==
  {[present |-> FALSE, used_kind |-> "absent", used |-> 0, price_kind |-> "absent", price |-> 0]}
  \cup
  {[present |-> TRUE, used_kind |-> uk, used |-> u, price_kind |-> pk, price |-> p] :
     uk \in {"hex", "number"}, u \in GasUsedInputs,
     pk \in {"hex", "number"}, p \in GasPriceInputs}
  \cup
  {[present |-> TRUE, used_kind |-> "absent", used |-> 0, price_kind |-> "absent", price |-> 0]}

TxsOf(g) ==
  IF g.present
  THEN DictSet(DictSet(EmptyDict, Tx(Hash_b, PyStr(Quantity(99)), PyStr(Quantity(99)))),
               Tx(Hash_a, Repr(g.used_kind, g.used), Repr(g.price_kind, g.price)))
  ELSE DictSet(EmptyDict, Tx(Hash_b, PyStr(Quantity(99)), PyStr(Quantity(99))))

\* transaction maps whose record carries the bare prefix "0x" for a quantity
EmptyHexGasInputs ==
  {[present |-> TRUE, used_kind |-> uk, used |-> u, price_kind |-> pk, price |-> p] :
     uk \in {"hex", "emptyhex"}, u \in GasUsedInputs,
     pk \in {"hex", "emptyhex"}, p \in GasPriceInputs}

DecodeInitWide ==
  /\ d_data \in DataSources
  /\ d_gas \in GasInputs \cup EmptyHexGasInputs
  /\ d_log \in {Log(Hash_a, 19000001, t, DataOf(d_data)) : t \in TopicsInputs}
  /\ d_txs = TxsOf(d_gas)
  /\ d_out = NoOut

DecodeInit ==
  /\ d_data \in DataSources
  /\ d_gas \in GasInputs
  /\ d_log \in {Log(Hash_a, 19000001, t, DataOf(d_data)) : t \in TopicsInputs}
  /\ d_txs = TxsOf(d_gas)
  /\ d_out = NoOut

\* decode_flashloan_log(log, txs) of each script on the same input
Decode ==
  /\ d_out = NoOut
  /\ d_out' = [v \in Variants |-> decode_flashloan_log(v, d_log, d_txs)]
  /\ UNCHANGED <<d_log, d_txs, d_data, d_gas>>

-----------------------------------------------------------------------------
(* main: the per-token summaries *)

MaxEvents == 3

RECURSIVE Pow10(_)
Pow10(k) == IF k = 0 THEN 1 ELSE 10 * Pow10(k - 1)

\* the floats of the model are pairs m * 10^e; a < b
FloatLess(a, b) ==
  LET lo == Min(a.e, b.e)
  IN a.m * Pow10(a.e - lo) < b.m * Pow10(b.e - lo)

\* min(xs)
FloatMin(xs) ==
  xs[CHOOSE i \in 1..Len(xs) : \A j \in 1..Len(xs) : ~FloatLess(xs[j], xs[i])]

\* max(xs)
FloatMax(xs) ==
  xs[CHOOSE i \in 1..Len(xs) : \A j \in 1..Len(xs) : ~FloatLess(xs[i], xs[j])]

\* a float m * 10^e that is a whole number: the double holds it exactly
IsWhole(x) == x.m = 0 \/ (0 - x.e <= 9 /\ x.m % Pow10(0 - x.e) = 0)

WholeValue(x) == IF x.m = 0 THEN 0 ELSE x.m \div Pow10(0 - x.e)

RECURSIVE SumWhole(_)
SumWhole(xs) ==
  IF xs = <<>> THEN 0 ELSE WholeValue(Head(xs)) + SumWhole(Tail(xs))

\* sum(xs) over doubles, taken in list order.  When every addend is a whole
\* number no addition rounds and the sum is that whole number; otherwise the
\* result depends on the rounding of the additions, and the sum is kept as
\* its addends in list order: it stands for the double that sum() returns
\* for that list.
FloatSum(xs) ==
  IF \A i \in 1..Len(xs) : IsWhole(xs[i])
  THEN [m |-> SumWhole(xs), e |-> 0]
  ELSE [addends |-> xs]

\* x / n for a float x and a count n: one rounded division
FloatOver(x, n) == [num |-> x, den |-> n]

RECURSIVE SumInts(_)
\* sum(xs) for integers
SumInts(xs) == IF xs = <<>> THEN 0 ELSE Head(xs) + SumInts(Tail(xs))

\* a / n for integers
IntOver(a, n) == [num |-> a, den |-> n]

\* min(xs) and max(xs) for integers
IntMin(xs) == xs[CHOOSE i \in 1..Len(xs) : \A j \in 1..Len(xs) : xs[i] <= xs[j]]

IntMax(xs) == xs[CHOOSE i \in 1..Len(xs) : \A j \in 1..Len(xs) : xs[i] >= xs[j]]

RECURSIVE KeysInOrder(_, _)
\* the keys of by_token in insertion order: the tokens by first appearance
KeysInOrder(es, seen) ==
  IF es = <<>> THEN <<>>
  ELSE IF Head(es).token \in seen THEN KeysInOrder(Tail(es), seen)
       ELSE <<Head(es).token>> \o KeysInOrder(Tail(es), seen \cup {Head(es).token})

\* by_token[token]
EventsOfToken(es, token) == SelectSeq(es, LAMBDA e : e.token = token)

\* sorted(by_token.items(), key=lambda x: -len(x[1])): most events first, ties
\* in insertion order
SortedByCount(es) ==
  LET keys == KeysInOrder(es, {})
      cnt(i) == Len(EventsOfToken(es, keys[i]))
      before(i, j) == cnt(i) > cnt(j) \/ (cnt(i) = cnt(j) /\ i < j)
      rank(i) == 1 + Cardinality({j \in 1..Len(keys) : before(j, i)})
  IN [k \in 1..Len(keys) |-> keys[CHOOSE i \in 1..Len(keys) : rank(i) = k]]

\* [e["gas_used"] for e in token_events if e["gas_used"] > 0]
GasList(token_events) ==
  LET pos == SelectSeq(token_events, LAMBDA e : e.gas_used > 0)
  IN [i \in 1..Len(pos) |-> pos[i].gas_used]

AmountsOf(token_events) == [i \in 1..Len(token_events) |-> token_events[i].amount]

\* extract_all, SUMMARY BY TOKEN: what is printed for one token
ExtractAllTokenEntry(token, token_events) ==
  LET amounts == AmountsOf(token_events)
      gas_list == GasList(token_events)
  IN [token |-> token,
      count |-> Len(token_events),
      min |-> FloatMin(amounts),
      max |-> FloatMax(amounts),
      avg |-> FloatOver(FloatSum(amounts), Len(amounts)),
      gas |-> IF gas_list # <<>>
              THEN <<[min |-> IntMin(gas_list), max |-> IntMax(gas_list),
                      avg |-> IntOver(SumInts(gas_list), Len(gas_list))]>>
              ELSE <<>>]

\* extract_all, SUMMARY BY TOKEN: the fifteen tokens with the most events
ExtractAllByToken(es) ==
  LET keys == SubSeq(SortedByCount(es), 1, Min(15, Len(SortedByCount(es))))
  IN [k \in 1..Len(keys) |-> ExtractAllTokenEntry(keys[k], EventsOfToken(es, keys[k]))]

\* stables = ["USDC", "USDT", "DAI", "FRAX", "LUSD"]
Stables ==
  << <<"U","S","D","C">>, <<"U","S","D","T">>, <<"D","A","I">>,
     <<"F","R","A","X">>, <<"L","U","S","D">> >>

\* extract_all, STABLECOIN FLASH LOANS: what is printed for one stablecoin
ExtractAllStableEntry(token, token_events) ==
  LET amounts == AmountsOf(token_events)
      gas_list == GasList(token_events)
  IN [token |-> token,
      count |-> Len(token_events),
      total |-> FloatSum(amounts),
      avg |-> FloatOver(FloatSum(amounts), Len(amounts)),
      max |-> FloatMax(amounts),
      gas_avg |-> IF gas_list # <<>>
                  THEN <<IntOver(SumInts(gas_list), Len(gas_list))>>
                  ELSE <<>>]

\* extract_all, STABLECOIN FLASH LOANS: the stablecoins that have events, in
\* the order of the list
ExtractAllStables(es) ==
  LET stable_events == SelectSeq(es, LAMBDA e : \E i \in 1..Len(Stables) : e.token = PyStr(Stables[i]))
      present == SelectSeq(Stables, LAMBDA n : EventsOfToken(stable_events, PyStr(n)) # <<>>)
  IN [k \in 1..Len(present) |->
        ExtractAllStableEntry(PyStr(present[k]), EventsOfToken(stable_events, PyStr(present[k])))]

\* balancer, Summary by stablecoin: what is printed for one token; the
\* average gas is taken over all the events of the token
BalancerTokenEntry(token, token_events) ==
  LET total_amount == SumInts([i \in 1..Len(token_events) |-> token_events[i].amount])
  IN [token |-> token,
      count |-> Len(token_events),
      total_amount |-> total_amount,
      volume |-> Scaled(total_amount, 6),
      avg_gas |-> IF token_events # <<>>
                  THEN IntOver(SumInts([i \in 1..Len(token_events) |-> token_events[i].gas_used]),
                               Len(token_events))
                  ELSE IntOver(0, 1)]

\* balancer, Summary by stablecoin: every token, most events first
BalancerByToken(es) ==
  LET keys == SortedByCount(es)
  IN [k \in 1..Len(keys) |-> BalancerTokenEntry(keys[k], EventsOfToken(es, keys[k]))]

(* The summaries on their own inputs *)

Hash_c == PyStr(<<"0", "x", "c">>)

SummaryAmounts == {100000000, 200000000, 300000000}

SummaryGas == {0, 21000, 30000}

\* one event: its token as a row of KNOWN_TOKENS (1 USDC, 3 DAI), its raw
\* amount, and the gas of its transaction (0: the map has no record)
EventSources ==
  [token : {1, 3}, amount : SummaryAmounts, gas : SummaryGas]

SummaryTxs ==
  DictSet(DictSet(EmptyDict, Tx(Hash_a, PyStr(Quantity(21000)), PyStr(Quantity(2000000000)))),
          Tx(Hash_b, PyStr(Quantity(30000)), PyStr(Quantity(1000000000))))

LogOf(src) ==
  Log(CASE src.gas = 21000 -> Hash_a [] src.gas = 30000 -> Hash_b [] OTHER -> Hash_c,
      19000001,
      <<PyStr(FLASHLOAN_TOPIC), Topic_Recipient, PyStr(KNOWN_TOKENS[src.token].key)>>,
      PyStr(<<"0", "x">> \o Word(src.amount) \o Word(0)))

\* events.append(decode_flashloan_log(log, txs)) for every log
EventsOf(v, srcs) ==
  [i \in 1..Len(srcs) |-> decode_flashloan_log(v, LogOf(srcs[i]), SummaryTxs).value]

SummaryVariants == {"extract_all", "balancer"}

SummaryInit ==
  /\ s_src \in UNION {[1..n -> EventSources] : n \in 1..MaxEvents}
  /\ s_events = [v \in SummaryVariants |-> EventsOf(v, s_src)]
  /\ s_out = NoOut

SummaryIdle ==
  /\ s_src = <<>>
  /\ s_events = [v \in SummaryVariants |-> <<>>]
  /\ s_out = NoOut

\* the summary sections of main in extract_all and in balancer; the events
\* are read, never written
Summarise ==
  /\ s_out = NoOut
  /\ s_out' = [extract_all |-> [by_token |-> ExtractAllByToken(s_events["extract_all"]),
                                stables |-> ExtractAllStables(s_events["extract_all"])],
               balancer |-> [by_token |-> BalancerByToken(s_events["balancer"])]]
  /\ UNCHANGED <<s_src, s_events>>

-----------------------------------------------------------------------------
(* Specifications *)

HarvestIdle ==
  /\ variant = "extract_all"
  /\ from_block = 0
  /\ to_block = PyNone
  /\ query_from = 0
  /\ all_logs = <<>>
  /\ all_txs = EmptyDict
  /\ res = NoRes
  /\ pc = "idle"
  /\ error = ""
  /\ events = <<>>
  /\ exported = <<>>
  /\ requests = <<>>
  /\ pages = <<>>
  /\ inflight = 0

DecodeIdle ==
  /\ d_log = Log(Hash_a, 19000001, FullTopics, PyNone)
  /\ d_data = [kind |-> "absent", amount |-> 0, fee |-> 0, cut |-> 0]
  /\ d_gas = [present |-> FALSE, used_kind |-> "absent", used |-> 0,
              price_kind |-> "absent", price |-> 0]
  /\ d_txs = EmptyDict
  /\ d_out = NoOut

Init == HarvestInit /\ DecodeIdle /\ SummaryIdle

Next ==
  \/ Get /\ UNCHANGED decode_vars /\ UNCHANGED summary_vars
  \/ Respond /\ UNCHANGED decode_vars /\ UNCHANGED summary_vars
  \/ GetFails /\ UNCHANGED decode_vars /\ UNCHANGED summary_vars
  \/ MainDecode /\ UNCHANGED decode_vars /\ UNCHANGED summary_vars
  \/ MainOutput /\ UNCHANGED decode_vars /\ UNCHANGED summary_vars

Spec == Init /\ [][Next]_vars

InitDecode == HarvestIdle /\ DecodeInit /\ SummaryIdle

NextDecode == Decode /\ UNCHANGED harvest_vars /\ UNCHANGED summary_vars

SpecDecode == InitDecode /\ [][NextDecode]_vars

InitAgree == HarvestIdle /\ DecodeInitWide /\ SummaryIdle

SpecAgree == InitAgree /\ [][NextDecode]_vars

InitSummary == HarvestIdle /\ DecodeIdle /\ SummaryInit

NextSummary == Summarise /\ UNCHANGED harvest_vars /\ UNCHANGED decode_vars

SpecSummary == InitSummary /\ [][NextSummary]_vars

-----------------------------------------------------------------------------
(* Histories the properties read *)

RECURSIVE FlattenLogs(_)
\* the log batches of the responses, concatenated in retrieval order
FlattenLogs(ps) ==
  IF ps = <<>> THEN <<>> ELSE Head(ps).logs \o FlattenLogs(Tail(ps))

RECURSIVE FlattenTxs(_)
\* the transaction records of the responses, in the order they were seen
FlattenTxs(ps) ==
  IF ps = <<>> THEN <<>> ELSE Head(ps).transactions \o FlattenTxs(Tail(ps))

\* the positions of the records seen so far that carry hash h
SeenAt(h) == {i \in 1..Len(FlattenTxs(pages)) : FlattenTxs(pages)[i].hash = h}

SeenHashes == {FlattenTxs(pages)[i].hash : i \in 1..Len(FlattenTxs(pages))}

\* every response so far carried a nextBlock above the previous one, and the
\* first one above the initial fromBlock
StrictlyIncreasing ==
  \A i \in 1..Len(pages) :
    pages[i].next_block > (IF i = 1 THEN from_block ELSE pages[i - 1].next_block)

\* a response has been taken in and the loop has decided what to do next
AfterPage == pages # <<>> /\ Len(requests) = Len(pages) /\ pc \in {"get", "returned"}

-----------------------------------------------------------------------------
(* Properties of query_flashloans and main, under Spec *)

\* C1: a response whose nextBlock is not above the fromBlock of its request,
\* while below the target, makes the harvest fail with NoProgress instead of
\* going on to another request.
C1_NoProgressGuard ==
  (/\ pages # <<>>
   /\ pages[Len(pages)].next_block <= requests[Len(pages)]
   /\ pages[Len(pages)].next_block <
        Target(to_block, pages[Len(pages)].archive_height))
  => (pc = "raised" /\ error = "NoProgress")

\* C2: with a toBlock above fromBlock and nextBlock strictly increasing from
\* response to response, at most toBlock - fromBlock requests are issued, and
\* once that many responses have arrived the loop has returned.
C2_TerminatesWithinRange ==
  (to_block.t = "int" /\ from_block < to_block.n /\ StrictlyIncreasing)
  => /\ Len(requests) <= to_block.n - from_block
     /\ Len(pages) >= to_block.n - from_block => pc \notin {"get", "await"}

\* C2 witness: a run that needed every one of its toBlock - fromBlock = 2
\* requests and returned.
C2_Witness ==
  /\ to_block.t = "int"
  /\ to_block.n - from_block = 2
  /\ StrictlyIncreasing
  /\ Len(pages) = 2
  /\ pc = "returned"

\* C3: after each page the loop stops exactly when nextBlock >= toBlock if a
\* toBlock was given (whatever its value, 0 included), otherwise exactly when
\* nextBlock >= the archive height of that response; when it goes on, the
\* next request starts at that nextBlock.
C3_StopsExactlyAtBound ==
  AfterPage =>
    LET nb == pages[Len(pages)].next_block
        ah == pages[Len(pages)].archive_height
        stop == IF to_block.t = "int" THEN nb >= to_block.n ELSE nb >= ah
    IN /\ (pc = "returned") <=> stop
       /\ pc = "get" => query_from = nb

\* C4: the lower bound of the requests never decreases: the cursor is never
\* below the fromBlock of a request already issued (a response that would
\* move it back fails with InvalidProgress instead).
C4_CursorNeverMovesBack ==
  /\ \A i \in 1..Len(requests) : requests[i] <= query_from
  /\ \A i, j \in 1..Len(requests) : i < j => requests[i] <= requests[j]

\* C5 as stated: for every hash seen in some record, the map holds the record
\* seen first.
C5_FirstWriteWins ==
  \A h \in SeenHashes :
    Truthy(h) =>
      /\ h \in DOMAIN all_txs
      /\ all_txs[h] = FlattenTxs(pages)[CHOOSE i \in SeenAt(h) : \A j \in SeenAt(h) : i <= j]

\* C5 as the code has it: for every non-empty hash seen in some record, the
\* map holds the record seen last; an earlier record with that hash is
\* replaced.
C5_LastWriteWins ==
  \A h \in SeenHashes :
    Truthy(h) =>
      /\ h \in DOMAIN all_txs
      /\ all_txs[h] = FlattenTxs(pages)[CHOOSE i \in SeenAt(h) : \A j \in SeenAt(h) : i >= j]

\* C5 witness: the harvest returned after two pages, and one hash came with
\* different records inside one page and again in a later page.
C5_Witness ==
  /\ pc = "returned"
  /\ Len(pages) >= 2
  /\ \E i, j \in 1..Len(pages[1].transactions) :
       /\ i < j
       /\ pages[1].transactions[i].hash = pages[1].transactions[j].hash
       /\ pages[1].transactions[i] # pages[1].transactions[j]
       /\ \E k \in 1..Len(pages[2].transactions) :
            /\ pages[2].transactions[k].hash = pages[1].transactions[i].hash
            /\ pages[2].transactions[k] # pages[1].transactions[j]

\* C6: at most one request is outstanding, and the accumulated logs are the
\* batches of the responses received so far, concatenated in retrieval
\* order, each batch in the order the service gave it.
C6_LogsAreConcatenation ==
  /\ inflight \in {0, 1}
  /\ inflight = 1 <=> pc = "await"
  /\ all_logs = FlattenLogs(pages)

\* C6 witness: the harvest returned the logs of two non-empty pages that
\* differ.
C6_Witness ==
  /\ pc = "returned"
  /\ \E i, j \in 1..Len(pages) :
       i < j /\ pages[i].logs # <<>> /\ pages[j].logs # <<>> /\ pages[i].logs # pages[j].logs
  /\ Len(all_logs) = 3

\* C7: once a page request has failed, that request stays the last one
\* issued, the run has ended with the error, and nothing was decoded or
\* exported, whatever earlier pages had delivered.
C7_FailurePropagates ==
  error = "ServiceUnavailable" =>
    /\ pc = "raised"
    /\ inflight = 0
    /\ Len(requests) = Len(pages) + 1
    /\ events = <<>>
    /\ exported = <<>>

\* C7 witness: the second request failed after a first page with logs.
C7_Witness ==
  /\ error = "ServiceUnavailable"
  /\ Len(pages) = 1
  /\ all_logs # <<>>
  /\ Len(requests) = 2

-----------------------------------------------------------------------------
(* Properties of decode_flashloan_log, under SpecDecode *)

\* the amount and fee of a decoded record, whatever the script calls them
AmountOf(v, rec) == IF v = "extract_all" THEN rec.amount_raw ELSE rec.amount

FeeOf(v, rec) == IF v = "extract_all" THEN rec.fee_raw ELSE rec.fee

\* the words the data was built from, as far as it holds them in full
ExpectedAmount == IF d_data.kind = "hex" /\ d_data.cut >= 64 THEN d_data.amount ELSE 0

ExpectedFee == IF d_data.kind = "hex" /\ d_data.cut >= 128 THEN d_data.fee ELSE 0

\* C8: the data field never makes the decoder raise: absent, empty, "0x" or
\* less than one word gives amount 0 and fee 0; one word but not two gives
\* the first word and fee 0; two words or more give the first and second
\* word.  extract_all and query_all return a record on every input; balancer
\* raises nothing but the TypeError of a numeric gas field.
C8_DataDecoding ==
  d_out # NoOut =>
    /\ \A v \in {"extract_all", "query_all"} : d_out[v].raised = ""
    /\ d_out["balancer"].raised \in {"", "TypeError"}
    /\ \A v \in Variants :
         d_out[v].raised = "" =>
           /\ AmountOf(v, d_out[v].value) = ExpectedAmount
           /\ FeeOf(v, d_out[v].value) = ExpectedFee

\* C8 witness: data holding the amount word and all but one character of the
\* fee word decodes to the amount and fee 0.
C8_Witness ==
  /\ d_out # NoOut
  /\ d_data = [kind |-> "hex", amount |-> 1000000, fee |-> 5, cut |-> 127]
  /\ d_out["extract_all"].raised = ""
  /\ d_out["extract_all"].value.amount_raw = 1000000
  /\ d_out["extract_all"].value.fee_raw = 0

\* the same log with all three topics
FullLog == [d_log EXCEPT !.topics = FullTopics]

\* C9: a log with fewer than three topics decodes without an error of its
\* own: extract_all returns a record with an empty token address, the name
\* "Unknown" and decimals 18, and an empty recipient when topics[1] is
\* missing too; balancer and query_all carry None for the missing topics and
\* the name "Unknown"; hash, block, amount, fee and gas are those of the same
\* log with all three topics, and so is the error, if the gas fields raise.
C9_ShortTopics ==
  (d_out # NoOut /\ Len(d_log.topics) < 3) =>
    /\ d_out["extract_all"].raised = ""
    /\ d_out["extract_all"].value.token_address = PyStr(<<>>)
    /\ d_out["extract_all"].value.token = PyStr(Str_Unknown)
    /\ d_out["extract_all"].value.decimals = 18
    /\ Len(d_log.topics) < 2 => d_out["extract_all"].value.recipient = PyStr(<<>>)
    /\ \A v \in Variants :
         LET short == d_out[v]
             full == decode_flashloan_log(v, FullLog, d_txs)
         IN /\ short.raised = full.raised
            /\ short.raised = "" =>
                 /\ short.value.token = PyStr(Str_Unknown)
                 /\ short.value.tx_hash = full.value.tx_hash
                 /\ short.value.block = full.value.block
                 /\ AmountOf(v, short.value) = AmountOf(v, full.value)
                 /\ FeeOf(v, short.value) = FeeOf(v, full.value)
                 /\ short.value.gas_used = full.value.gas_used
                 /\ short.value.gas_price_gwei = full.value.gas_price_gwei
    /\ d_out["balancer"].raised = "" =>
         /\ d_out["balancer"].value.token_address = PyNone
         /\ Len(d_log.topics) < 2 => d_out["balancer"].value.recipient = PyNone
    /\ d_out["query_all"].value.token_topic = PyNone

\* C9 witness: a log with the signature topic only, two words of data and a
\* matching transaction, decoded by extract_all.
C9_Witness ==
  /\ d_out # NoOut
  /\ Len(d_log.topics) = 1
  /\ d_data = [kind |-> "hex", amount |-> 1000000, fee |-> 5, cut |-> 128]
  /\ d_gas.present /\ d_gas.used = 21000 /\ d_gas.used_kind = "hex"
  /\ d_out["extract_all"].raised = ""
  /\ d_out["extract_all"].value.amount_raw = 1000000
  /\ d_out["extract_all"].value.gas_used = 21000
  /\ d_out["extract_all"].value.recipient = PyStr(<<>>)

\* C10: gas_used and gas_price_gwei are 0 when the map has no record for the
\* hash; with a record, a quantity given as a hex string and the same
\* quantity given as a number decode to the same integer, without error, and
\* gas_price_gwei is the gas price over 10^9.
C10_GasNormalised ==
  d_out # NoOut =>
    \A v \in Variants :
      /\ d_out[v].raised = ""
      /\ ~d_gas.present =>
           /\ d_out[v].value.gas_used = 0
           /\ d_out[v].value.gas_price_gwei = Scaled(0, 9)
      /\ (d_gas.present /\ d_gas.used_kind \in {"hex", "number"}) =>
           d_out[v].value.gas_used = d_gas.used
      /\ (d_gas.present /\ d_gas.price_kind \in {"hex", "number"}) =>
           d_out[v].value.gas_price_gwei = Scaled(d_gas.price, 9)

-----------------------------------------------------------------------------
(* Agreement of the three decoders, under SpecAgree *)

\* the fields the three records share, under one set of names
SharedFields(v, rec) ==
  [tx_hash |-> rec.tx_hash, block |-> rec.block,
   amount |-> AmountOf(v, rec), fee |-> FeeOf(v, rec),
   gas_used |-> rec.gas_used, gas_price_gwei |-> rec.gas_price_gwei]

\* no gas field of the transaction map is a number
GasFieldsAreStrings == d_gas.used_kind # "number" /\ d_gas.price_kind # "number"

\* C12: on a transaction map whose gas fields are strings, the three
\* decoders raise together or not at all, and when they return, their
\* tx_hash, block, raw amount, raw fee, gas_used and gas_price_gwei are equal.
C12_DecodersAgree ==
  (d_out # NoOut /\ GasFieldsAreStrings) =>
    \A v, w \in Variants :
      /\ d_out[v].raised = d_out[w].raised
      /\ d_out[v].raised = "" =>
           SharedFields(v, d_out[v].value) = SharedFields(w, d_out[w].value)

\* C12 witness: a full log with two words of data and a matching
\* transaction with hex gas fields, decoded by all three to the same values.
C12_Witness ==
  /\ d_out # NoOut
  /\ d_log.topics = FullTopics
  /\ d_data = [kind |-> "hex", amount |-> 1000000, fee |-> 5, cut |-> 128]
  /\ d_gas = [present |-> TRUE, used_kind |-> "hex", used |-> 21000,
              price_kind |-> "hex", price |-> 2000000000]
  /\ \A v \in Variants :
       /\ d_out[v].raised = ""
       /\ SharedFields(v, d_out[v].value).gas_used = 21000
       /\ SharedFields(v, d_out[v].value).gas_price_gwei = Scaled(2000000000, 9)
       /\ SharedFields(v, d_out[v].value).amount = 1000000

\* C12 second case: a record with the bare prefix "0x" as gas_used makes all
\* three raise the same ValueError.
C12_RaiseTogether ==
  /\ d_out # NoOut
  /\ d_gas.used_kind = "emptyhex"
  /\ \A v \in Variants : d_out[v].raised = "ValueError"

-----------------------------------------------------------------------------
(* Properties of the per-token summaries, under SpecSummary *)

\* what the summary of one token should be, from what the logs were built from
SourcesOf(k) == SelectSeq(s_src, LAMBDA x : x.token = k)

TokensPresent == {s_src[i].token : i \in 1..Len(s_src)}

RawAmounts(k) == [i \in 1..Len(SourcesOf(k)) |-> SourcesOf(k)[i].amount]

PositiveGas(k) ==
  LET pos == SelectSeq(SourcesOf(k), LAMBDA x : x.gas > 0)
  IN [i \in 1..Len(pos) |-> pos[i].gas]

EntriesFor(section, k) ==
  SelectSeq(section, LAMBDA r : r.token = PyStr(KNOWN_TOKENS[k].name))

\* count, sum, minimum, maximum and average of the scaled amounts of token k
\* and the gas statistics over its events with gas_used > 0, as extract_all
\* prints them in its two sections
ExtractAllAsClaimed(k) ==
  LET d == KNOWN_TOKENS[k].decimals
      raw == RawAmounts(k)
      gas == PositiveGas(k)
      scaled == [i \in 1..Len(raw) |-> Scaled(raw[i], d)]
      bt == EntriesFor(s_out.extract_all.by_token, k)
      st == EntriesFor(s_out.extract_all.stables, k)
  IN /\ Len(bt) = 1 /\ Len(st) = 1
     /\ bt[1].count = Len(raw) /\ st[1].count = Len(raw)
     /\ st[1].total = FloatSum(scaled)
     /\ bt[1].min = Scaled(IntMin(raw), d)
     /\ bt[1].max = Scaled(IntMax(raw), d) /\ st[1].max = Scaled(IntMax(raw), d)
     /\ bt[1].avg = FloatOver(FloatSum(scaled), Len(raw))
     /\ st[1].avg = bt[1].avg
     /\ IF gas = <<>> THEN bt[1].gas = <<>> /\ st[1].gas_avg = <<>>
        ELSE /\ bt[1].gas = <<[min |-> IntMin(gas), max |-> IntMax(gas),
                              avg |-> IntOver(SumInts(gas), Len(gas))]>>
             /\ st[1].gas_avg = <<IntOver(SumInts(gas), Len(gas))>>

\* count and sum of the amounts of token k and the average gas over its
\* events with gas_used > 0, the figures balancer prints
BalancerAsClaimed(k) ==
  LET raw == RawAmounts(k)
      gas == PositiveGas(k)
      bt == EntriesFor(s_out.balancer.by_token, k)
  IN /\ Len(bt) = 1
     /\ bt[1].count = Len(raw)
     /\ bt[1].total_amount = SumInts(raw)
     /\ gas # <<>> =>
          bt[1].avg_gas.num * Len(gas) = SumInts(gas) * bt[1].avg_gas.den

EventsUntouched ==
  s_events = [v \in SummaryVariants |-> EventsOf(v, s_src)]

\* C11: once main has summarised, every token that has events is reported
\* with the count, sum, minimum, maximum and average of exactly its own scaled
\* amounts, its gas statistics are taken over its events with gas_used > 0
\* only, and the decoded events are as they were.  Stated of both scripts that
\* print a per-token summary.
C11_PerTokenSummary ==
  s_out # NoOut =>
    /\ \A k \in TokensPresent : ExtractAllAsClaimed(k) /\ BalancerAsClaimed(k)
    /\ EventsUntouched

\* the part of C11 that is about extract_all_flashloans.py alone
ExtractAllSummaryAsClaimed ==
  s_out # NoOut =>
    /\ \A k \in TokensPresent : ExtractAllAsClaimed(k)
    /\ EventsUntouched

\* the part of C11 about balancer other than the gas average
BalancerCountsAsClaimed ==
  s_out # NoOut =>
    \A k \in TokensPresent :
      LET bt == EntriesFor(s_out.balancer.by_token, k)
      IN Len(bt) = 1 /\ bt[1].count = Len(RawAmounts(k))
         /\ bt[1].total_amount = SumInts(RawAmounts(k))

\* three USDC events of 100.0, 200.0 and 300.0: count 3, sum 600.0, minimum
\* 100.0, maximum 300.0, average 600.0 / 3
AggregationScenario ==
  /\ s_out # NoOut
  /\ \A i \in 1..Len(s_src) : s_src[i].token = 1
  /\ [i \in 1..Len(s_src) |-> s_src[i].amount] = <<100000000, 200000000, 300000000>>
  /\ s_out.extract_all.by_token[1].count = 3
  /\ s_out.extract_all.stables[1].total = [m |-> 600, e |-> 0]
  /\ s_out.extract_all.by_token[1].min = Scaled(100000000, 6)
  /\ s_out.extract_all.by_token[1].max = Scaled(300000000, 6)
  /\ s_out.extract_all.by_token[1].avg = [num |-> [m |-> 600, e |-> 0], den |-> 3]

\* three DAI events of 1e-10, 3e-10 and 3e-10: the sum is the double that
\* adding them in this order yields
InexactSumKeepsOrder ==
  /\ s_out # NoOut
  /\ s_out.extract_all.stables[1].total =
       [addends |-> <<Scaled(100000000, 18), Scaled(300000000, 18), Scaled(300000000, 18)>>]

\* two USDC events, one with gas 21000 and one without a transaction record:
\* balancer prints the average 10500
BalancerAveragesOverAll ==
  /\ s_out # NoOut
  /\ s_src = <<[token |-> 1, amount |-> 100000000, gas |-> 21000],
               [token |-> 1, amount |-> 200000000, gas |-> 0]>>
  /\ s_out.balancer.by_token[1].avg_gas = IntOver(21000, 2)
  /\ s_out.extract_all.by_token[1].gas[1].avg = IntOver(21000, 1)

====
